---------------------------- MODULE Spec2Model ----------------------------
(***************************************************************************)
(* do-spaces-export: a resumable bulk downloader of an S3 bucket.          *)
(*                                                                         *)
(* The model follows src/do_spaces_export: init_script (__init__.py),      *)
(* list_objects_in_bucket (fetch.py) and the ledger store,                 *)
(* create_directories and download_objects (export.py).  An object key is  *)
(* a tuple of one-character strings, so that "the last character of the    *)
(* key" and "the directory part of the key" are computed, not assumed.     *)
(* The ledger file holds text (a sequence of tokens) that is written by    *)
(* json.dump and parsed by json.load.                                      *)
(***************************************************************************)
EXTENDS Integers, Sequences, FiniteSets, TLC

(***************************************************************************)
(* Bounds of the model.                                                    *)
(***************************************************************************)
MaxRuns == 2
MaxPages == 3

(***************************************************************************)
(* The bucket, unchanged across runs: its records in listing order.  Only  *)
(* the Key of a record is used by the program.                             *)
(***************************************************************************)
KeyA == <<"a">>
KeyDir == <<"d", "/">>
KeyB == <<"d", "/", "b">>

Bucket == <<KeyA, KeyDir, KeyB>>

AllKeys == {Bucket[i] : i \in 1..Len(Bucket)}

Root == <<>>

(***************************************************************************)
(* Sequence helpers.                                                       *)
(***************************************************************************)
RECURSIVE Flatten(_)
Flatten(ss) == IF ss = <<>> THEN <<>> ELSE Head(ss) \o Flatten(Tail(ss))

RECURSIVE SetToSeq(_)
SetToSeq(S) ==
    IF S = {} THEN <<>>
    ELSE LET x == CHOOSE y \in S : TRUE IN <<x>> \o SetToSeq(S \ {x})

(***************************************************************************)
(* Paths under the export root.  local_filepath = f"{local_path}/{key}".   *)
(* A path is the key itself; a directory path is written without its       *)
(* trailing separator.                                                     *)
(***************************************************************************)
SlashPositions(key) == {i \in 1..Len(key) : key[i] = "/"}

\* the path of the directory that os.makedirs(f"{local_filepath}/{Key}") names
DirPath(key) ==
    IF key # <<>> /\ key[Len(key)] = "/" THEN SubSeq(key, 1, Len(key) - 1) ELSE key

\* os.path.dirname(local_filepath): everything before the last separator
Dirname(key) ==
    IF SlashPositions(key) = {} THEN Root
    ELSE LET last == CHOOSE i \in SlashPositions(key) :
                         \A j \in SlashPositions(key) : j <= i
         IN SubSeq(key, 1, last - 1)

\* os.makedirs(path, exist_ok=True) creates the path and every missing ancestor
Makedirs(path) ==
    {Root, path} \cup {SubSeq(path, 1, i - 1) : i \in SlashPositions(path)}

(***************************************************************************)
(* Ledger store (export.py).  The ledger file is                           *)
(* [exists, text]; a well-formed text is the opening token, the keys and   *)
(* the closing token, which is what json.dump writes for                   *)
(* {"downloaded_files": [...]}.                                            *)
(***************************************************************************)
LBrace == <<"{">>
RBrace == <<"}">>

NoFile == [exists |-> FALSE, text |-> <<>>]

\* json.dump({"downloaded_files": list(downloaded_files)}, f, indent=2)
JsonDump(downloaded) == <<LBrace>> \o SetToSeq(downloaded) \o <<RBrace>>

JsonLoadsLenient(text) == Len(text) >= 1 /\ text[1] = LBrace

\* json.load succeeds on a complete document only
JsonLoads(text) ==
    /\ Len(text) >= 2
    /\ text[1] = LBrace
    /\ text[Len(text)] = RBrace
    /\ \A i \in 2..(Len(text) - 1) : text[i] \notin {LBrace, RBrace}

get_download_log(file) ==
    IF file.exists /\ JsonLoads(file.text)
    THEN {file.text[i] : i \in 2..(Len(file.text) - 1)}
    ELSE {}

save_download_log(downloaded) == [exists |-> TRUE, text |-> JsonDump(downloaded)]

add_to_download_log_SaveFirst(file_key, downloaded) ==
    [set |-> downloaded \cup {file_key},
     file |-> save_download_log(downloaded)]

\* the set after downloaded_files.add(file_key) and the file after the save
add_to_download_log(file_key, downloaded) ==
    [set |-> downloaded \cup {file_key},
     file |-> save_download_log(downloaded \cup {file_key})]

\* open(log_filepath, "w") truncates the file; a write that stops before
\* json.dump has finished leaves a proper prefix of the document
TruncatedSaves(downloaded) ==
    {[exists |-> TRUE, text |-> SubSeq(JsonDump(downloaded), 1, n)] :
        n \in 0..(Len(JsonDump(downloaded)) - 1)}

\* save_download_log raising an error: before the file was opened (the file
\* is as it was) or while writing it
FailedSaves(file, downloaded) == {file} \cup TruncatedSaves(downloaded)

(***************************************************************************)
(* Object lister (fetch.py) and the storage service it talks to.           *)
(* The service serves the bucket as a chain of pages; the token of page i  *)
(* (i >= 2) is i, and None is the value Python tests as false.             *)
(***************************************************************************)
None == 0

PageLayouts ==
    UNION {
        {[i \in 1..k |-> SubSeq(Bucket, c[i - 1] + 1, c[i])] :
            c \in {d \in [0..k -> 0..Len(Bucket)] :
                      /\ d[0] = 0
                      /\ d[k] = Len(Bucket)
                      /\ \A i \in 1..k : d[i - 1] <= d[i]}} :
        k \in 1..MaxPages}

\* client.list_objects_v2(Bucket=..., [ContinuationToken=token])
list_objects_v2(chain, token) ==
    LET i == IF token # None THEN token ELSE 1
    IN [HasContents |-> chain[i] # <<>>,
        Contents |-> chain[i],
        IsTruncated |-> i < Len(chain),
        NextContinuationToken |-> IF i < Len(chain) THEN i + 1 ELSE None]

ExtendOverwrite(objects, contents) == contents

\* all_objects.extend(response["Contents"])
Extend(objects, contents) == objects \o contents

(***************************************************************************)
(* Partition of the listing (init_script).                                 *)
(***************************************************************************)
IsFileAlways(key) == TRUE

IsFile(key) == key[Len(key)] # "/"
IsDirectory(key) == key[Len(key)] = "/"

RECURSIVE FilesOf(_)
FilesOf(objects) ==
    IF objects = <<>> THEN <<>>
    ELSE (IF IsFile(Head(objects)) THEN <<Head(objects)>> ELSE <<>>)
         \o FilesOf(Tail(objects))

RECURSIVE DirectoriesOf(_)
DirectoriesOf(objects) ==
    IF objects = <<>> THEN <<>>
    ELSE (IF IsDirectory(Head(objects)) THEN <<Head(objects)>> ELSE <<>>)
         \o DirectoriesOf(Tail(objects))

FileKeys == {k \in AllKeys : k[Len(k)] # "/"}
MarkerKeys == AllKeys \ FileKeys

\* os.makedirs over every directory marker, after the root
create_directories(dirList, existing) ==
    existing \cup {Root} \cup UNION {Makedirs(DirPath(dirList[i])) : i \in 1..Len(dirList)}

(***************************************************************************)
(* State.                                                                  *)
(*   fs, dirs, logFile     the local export root: the file at rootPath/Key *)
(*                         ("absent", "partial" or "complete"), the        *)
(*                         directories and download_log.json               *)
(*   pc, run               position of init_script and number of the run   *)
(*   pages                 the page chain the service serves for this run  *)
(*   all_objects, continuation_token    locals of list_objects_in_bucket   *)
(*   files, directories    the partition made by init_script               *)
(*   downloaded_files, stats, index     locals of download_objects         *)
(* History of the current and the previous run, read by the properties:    *)
(*   loaded      the set download_objects loaded from the ledger file      *)
(*   seen        how each key was found when its record was reached        *)
(*   class       the counter each record was added to                      *)
(*   calls       keys for which download_fileobj was called in this run    *)
(*   transferred keys whose transfer has succeeded in some run             *)
(*   endedIn     the function an error or interrupt came from              *)
(*   raised      the exception that reached init_script, if any            *)
(*   requests    the tokens list_objects_in_bucket has sent, in order      *)
(*   loadOk      the ledger file was readable when the run loaded it       *)
(*   startedEmpty the first run started on an empty root without a ledger  *)
(*   fresh       this run started on an empty root without a ledger        *)
(*   prevOutcome, prevStats, prevClass  pc, stats and class of the run     *)
(*                         before this one                                 *)
(***************************************************************************)
VARIABLES fs, dirs, logFile, pc, run, pages, all_objects, continuation_token,
          files, directories, downloaded_files, stats, index,
          loaded, seen, class, calls, transferred, endedIn, fresh,
          prevOutcome, prevStats, prevClass,
          requests, loadOk, startedEmpty, raised

diskVars == <<fs, dirs, logFile>>
listVars == <<pages, all_objects, continuation_token, requests>>
loopVars == <<files, directories, downloaded_files, stats, index>>
histVars == <<loaded, loadOk, seen, class, calls, transferred, fresh, startedEmpty,
              prevOutcome, prevStats, prevClass>>
vars == <<fs, dirs, logFile, pc, run, pages, all_objects, continuation_token,
          files, directories, downloaded_files, stats, index,
          loaded, seen, class, calls, transferred, endedIn, fresh,
          prevOutcome, prevStats, prevClass,
          requests, loadOk, startedEmpty, raised>>

init_script_except_Generic(exception) == "error"

\* init_script lines 37-40: the except clause that takes the exception, and
\* with it the way the run ends
init_script_except(exception) ==
    IF exception = "KeyboardInterrupt" THEN "interrupted" ELSE "error"

\* the ledger file can be read back: it is absent or a complete document
Readable(file) == ~file.exists \/ JsonLoads(file.text)

ZeroStats == [downloaded |-> 0, skipped_exists |-> 0, skipped_logged |-> 0, failed |-> 0]

Unclassified == [k \in AllKeys |-> "none"]

\* os.path.exists(local_filepath)
Exists(key) == fs[key] # "absent" \/ DirPath(key) \in dirs

(***************************************************************************)
(* Before the first run the root holds any pre-placed complete files and   *)
(* either no ledger or a well-formed one naming file keys.                 *)
(***************************************************************************)
Init ==
    /\ \E placed \in SUBSET FileKeys :
        /\ fs = [k \in AllKeys |-> IF k \in placed THEN "complete" ELSE "absent"]
        /\ \E logged \in SUBSET FileKeys, hasLog \in BOOLEAN :
            /\ hasLog = FALSE => logged = {}
            /\ logFile = IF hasLog THEN save_download_log(logged) ELSE NoFile
            /\ dirs = UNION ({Makedirs(Dirname(k)) : k \in placed}
                             \cup {IF hasLog THEN {Root} ELSE {}})
    /\ pc = "idle"
    /\ run = 0
    /\ pages = <<>>
    /\ all_objects = <<>>
    /\ continuation_token = None
    /\ files = <<>>
    /\ directories = <<>>
    /\ downloaded_files = {}
    /\ stats = ZeroStats
    /\ index = 1
    /\ loaded = {}
    /\ seen = Unclassified
    /\ class = Unclassified
    /\ calls = {}
    /\ transferred = {}
    /\ endedIn = "none"
    /\ raised = "none"
    /\ requests = <<>>
    /\ loadOk = FALSE
    /\ startedEmpty = FALSE
    /\ fresh = FALSE
    /\ prevOutcome = "none"
    /\ prevStats = ZeroStats
    /\ prevClass = Unclassified

(***************************************************************************)
(* init_script is started (again).  create_client and the first            *)
(* get_download_log only feed a log line.                                  *)
(***************************************************************************)
StartRun ==
    /\ pc \in {"idle", "done", "interrupted", "error"}
    /\ run < MaxRuns
    /\ run' = run + 1
    /\ pc' = "list"
    /\ pages' \in PageLayouts
    /\ all_objects' = <<>>
    /\ continuation_token' = None
    /\ files' = <<>>
    /\ directories' = <<>>
    /\ downloaded_files' = {}
    /\ stats' = ZeroStats
    /\ index' = 1
    /\ loaded' = {}
    /\ seen' = Unclassified
    /\ class' = Unclassified
    /\ calls' = {}
    /\ endedIn' = "none"
    /\ raised' = "none"
    /\ requests' = <<>>
    /\ loadOk' = FALSE
    /\ startedEmpty' = IF run = 0
                       THEN ~logFile.exists /\ \A k \in AllKeys : fs[k] = "absent"
                       ELSE startedEmpty
    /\ fresh' = (run = 0 /\ ~logFile.exists /\ \A k \in AllKeys : fs[k] = "absent")
    /\ prevOutcome' = pc
    /\ prevStats' = stats
    /\ prevClass' = class
    /\ UNCHANGED <<diskVars, transferred>>

ListPageTokenDropped ==
    /\ pc = "list"
    /\ requests' = Append(requests, continuation_token)
    /\ LET response == list_objects_v2(pages, continuation_token) IN
        /\ all_objects' = IF response.HasContents
                          THEN Extend(all_objects, response.Contents)
                          ELSE all_objects
        /\ continuation_token' = continuation_token
        /\ pc' = IF response.IsTruncated THEN "list" ELSE "listed"
    /\ UNCHANGED <<diskVars, run, pages, loopVars, histVars, endedIn, raised>>

(***************************************************************************)
(* list_objects_in_bucket: one turn of the while loop.                     *)
(***************************************************************************)
ListPage ==
    /\ pc = "list"
    /\ requests' = Append(requests, continuation_token)
    /\ LET response == list_objects_v2(pages, continuation_token) IN
        /\ all_objects' = IF response.HasContents
                          THEN Extend(all_objects, response.Contents)
                          ELSE all_objects
        /\ IF response.IsTruncated
           THEN /\ continuation_token' = response.NextContinuationToken
                /\ pc' = "list"
           ELSE /\ continuation_token' = continuation_token
                /\ pc' = "listed"
    /\ UNCHANGED <<diskVars, run, pages, loopVars, histVars, endedIn, raised>>

ListErrorSwallowed ==
    /\ pc = "list"
    /\ raised' = "Exception"
    /\ pc' = "listed"
    /\ endedIn' = "list_objects_in_bucket"
    /\ UNCHANGED <<diskVars, run, listVars, loopVars, histVars>>

\* a list request raises: nothing in fetch.py catches it
ListError ==
    /\ pc = "list"
    /\ raised' = "Exception"
    /\ pc' = init_script_except(raised')
    /\ endedIn' = "list_objects_in_bucket"
    /\ UNCHANGED <<diskVars, run, listVars, loopVars, histVars>>

ListInterrupt ==
    /\ pc = "list"
    /\ raised' = "KeyboardInterrupt"
    /\ pc' = init_script_except(raised')
    /\ endedIn' = "list_objects_in_bucket"
    /\ UNCHANGED <<diskVars, run, listVars, loopVars, histVars>>

(***************************************************************************)
(* init_script lines 20-26: the partition, create_directories and the      *)
(* start of download_objects (load the ledger, zero the statistics).       *)
(***************************************************************************)
Prepare ==
    /\ pc = "listed"
    /\ files' = FilesOf(all_objects)
    /\ directories' = DirectoriesOf(all_objects)
    /\ dirs' = create_directories(directories', dirs)
    /\ downloaded_files' = get_download_log(logFile)
    /\ loaded' = downloaded_files'
    /\ loadOk' = Readable(logFile)
    /\ stats' = ZeroStats
    /\ index' = 1
    /\ pages' = <<>>
    /\ requests' = <<>>
    /\ pc' = "loop"
    /\ UNCHANGED <<fs, logFile, run, all_objects, continuation_token, seen, class,
                   calls, transferred, endedIn, raised, fresh, startedEmpty,
                   prevOutcome, prevStats, prevClass>>

\* os.makedirs raises in create_directories, which re-raises
CreateDirectoriesError ==
    /\ pc = "listed"
    /\ files' = FilesOf(all_objects)
    /\ directories' = DirectoriesOf(all_objects)
    /\ raised' = "Exception"
    /\ pc' = init_script_except(raised')
    /\ endedIn' = "create_directories"
    /\ UNCHANGED <<diskVars, run, listVars, downloaded_files, stats, index, histVars>>

\* KeyboardInterrupt while create_directories runs (it catches Exception
\* only), or before the loop of download_objects is entered: the root and
\* the marker directories made so far stay
CreateDirectoriesInterrupt ==
    /\ pc = "listed"
    /\ files' = FilesOf(all_objects)
    /\ directories' = DirectoriesOf(all_objects)
    /\ dirs' \in {dirs, dirs \cup {Root}, create_directories(directories', dirs)}
    /\ raised' = "KeyboardInterrupt"
    /\ pc' = init_script_except(raised')
    /\ endedIn' = "create_directories"
    /\ UNCHANGED <<fs, logFile, run, listVars, downloaded_files, stats, index, histVars>>

(***************************************************************************)
(* download_objects: one action is one turn of the for loop (lines         *)
(* 99-138), from reading the record to the continue, or to the exception   *)
(* that leaves the loop.  The record being handled is files[index].        *)
(***************************************************************************)
InLoop == pc = "loop" /\ index <= Len(files)

Key == files[index]

BumpUnlessLogged(counter) ==
    IF counter = "skipped_logged" THEN stats ELSE [stats EXCEPT ![counter] = @ + 1]

Bump(counter) == [stats EXCEPT ![counter] = @ + 1]

Reached(how) == seen' = [seen EXCEPT ![Key] = how]

Classified(counter) == class' = [class EXCEPT ![Key] = counter]

SkipLoggedRefetch ==
    /\ InLoop
    /\ Key \in downloaded_files
    /\ fs' = [fs EXCEPT ![Key] = "complete"]
    /\ calls' = IF fs[Key] = "absent" THEN calls \cup {Key} ELSE calls
    /\ stats' = Bump("skipped_logged")
    /\ index' = index + 1
    /\ Reached("logged")
    /\ Classified("skipped_logged")
    /\ UNCHANGED <<dirs, logFile, pc, run, listVars, files, directories, downloaded_files,
                   loaded, loadOk, transferred, endedIn, raised, fresh, startedEmpty,
                   prevOutcome, prevStats, prevClass>>

\* lines 104-107
SkipLogged ==
    /\ InLoop
    /\ Key \in downloaded_files
    /\ stats' = Bump("skipped_logged")
    /\ index' = index + 1
    /\ Reached("logged")
    /\ Classified("skipped_logged")
    /\ UNCHANGED <<diskVars, pc, run, listVars, files, directories, downloaded_files,
                   loaded, loadOk, calls, transferred, endedIn, raised, fresh, startedEmpty,
                   prevOutcome, prevStats, prevClass>>

\* lines 110-115
SkipExists ==
    /\ InLoop
    /\ Key \notin downloaded_files
    /\ Exists(Key)
    /\ LET logged == add_to_download_log(Key, downloaded_files) IN
        /\ downloaded_files' = logged.set
        /\ logFile' = logged.file
    /\ dirs' = dirs \cup {Root}
    /\ stats' = Bump("skipped_exists")
    /\ index' = index + 1
    /\ Reached("exists")
    /\ Classified("skipped_exists")
    /\ UNCHANGED <<fs, pc, run, listVars, files, directories,
                   loaded, loadOk, calls, transferred, endedIn, raised, fresh, startedEmpty,
                   prevOutcome, prevStats, prevClass>>

\* line 113 raises in save_download_log: it is outside the inner try, and the
\* outer try catches KeyboardInterrupt only
SkipExistsSaveError ==
    /\ InLoop
    /\ Key \notin downloaded_files
    /\ Exists(Key)
    /\ downloaded_files' = downloaded_files \cup {Key}
    /\ logFile' \in FailedSaves(logFile, downloaded_files')
    /\ raised' = "Exception"
    /\ pc' = init_script_except(raised')
    /\ endedIn' = "download_objects"
    /\ Reached("exists")
    /\ UNCHANGED <<fs, dirs, run, listVars, files, directories, stats, index,
                   loaded, loadOk, class, calls, transferred, fresh, startedEmpty,
                   prevOutcome, prevStats, prevClass>>

\* KeyboardInterrupt while line 113 writes the ledger, or right after it
SkipExistsInterrupt ==
    /\ InLoop
    /\ Key \notin downloaded_files
    /\ Exists(Key)
    /\ downloaded_files' = downloaded_files \cup {Key}
    /\ logFile' \in TruncatedSaves(downloaded_files')
                        \cup {save_download_log(downloaded_files')}
    /\ raised' = "KeyboardInterrupt"
    /\ pc' = init_script_except(raised')
    /\ endedIn' = "download_objects"
    /\ Reached("exists")
    /\ UNCHANGED <<fs, dirs, run, listVars, files, directories, stats, index,
                   loaded, loadOk, class, calls, transferred, fresh, startedEmpty,
                   prevOutcome, prevStats, prevClass>>

\* the record is neither logged nor on disk: lines 118-138 are reached
ToDownload ==
    /\ InLoop
    /\ Key \notin downloaded_files
    /\ ~Exists(Key)

\* line 118 raises, outside the inner try
MakedirsError ==
    /\ ToDownload
    /\ raised' = "Exception"
    /\ pc' = init_script_except(raised')
    /\ endedIn' = "download_objects"
    /\ Reached("missing")
    /\ UNCHANGED <<diskVars, run, listVars, loopVars, loaded, loadOk, class, calls,
                   transferred, fresh, startedEmpty, prevOutcome, prevStats, prevClass>>

\* lines 118-130, nothing raises
DownloadOk ==
    /\ ToDownload
    /\ dirs' = dirs \cup Makedirs(Dirname(Key))
    /\ fs' = [fs EXCEPT ![Key] = "complete"]
    /\ LET logged == add_to_download_log(Key, downloaded_files) IN
        /\ downloaded_files' = logged.set
        /\ logFile' = logged.file
    /\ stats' = Bump("downloaded")
    /\ index' = index + 1
    /\ calls' = calls \cup {Key}
    /\ transferred' = transferred \cup {Key}
    /\ Reached("missing")
    /\ Classified("downloaded")
    /\ UNCHANGED <<pc, run, listVars, files, directories, loaded, loadOk, endedIn, raised, fresh, startedEmpty,
                   prevOutcome, prevStats, prevClass>>

\* download_fileobj raises: lines 132-138 count the failure and remove the file
DownloadError ==
    /\ ToDownload
    /\ dirs' = dirs \cup Makedirs(Dirname(Key))
    /\ fs' = [fs EXCEPT ![Key] = "absent"]
    /\ stats' = Bump("failed")
    /\ index' = index + 1
    /\ calls' = calls \cup {Key}
    /\ Reached("missing")
    /\ Classified("failed")
    /\ UNCHANGED <<logFile, pc, run, listVars, files, directories, downloaded_files,
                   loaded, loadOk, transferred, endedIn, raised, fresh, startedEmpty,
                   prevOutcome, prevStats, prevClass>>

\* the transfer succeeds and line 125 raises in save_download_log, after
\* downloaded_files.add: lines 132-138 count a failure and remove the file
DownloadSaveError ==
    /\ ToDownload
    /\ dirs' = dirs \cup Makedirs(Dirname(Key))
    /\ fs' = [fs EXCEPT ![Key] = "absent"]
    /\ downloaded_files' = downloaded_files \cup {Key}
    /\ logFile' \in FailedSaves(logFile, downloaded_files')
    /\ stats' = Bump("failed")
    /\ index' = index + 1
    /\ calls' = calls \cup {Key}
    /\ transferred' = transferred \cup {Key}
    /\ Reached("missing")
    /\ Classified("failed")
    /\ UNCHANGED <<pc, run, listVars, files, directories, loaded, loadOk, endedIn, raised, fresh, startedEmpty,
                   prevOutcome, prevStats, prevClass>>

(***************************************************************************)
(* KeyboardInterrupt inside the loop.  It is no Exception, so the inner    *)
(* handler (lines 132-138) does not run; lines 140-143 log and re-raise.   *)
(***************************************************************************)
\* before the record is looked at
InterruptBoundary ==
    /\ InLoop
    /\ raised' = "KeyboardInterrupt"
    /\ pc' = init_script_except(raised')
    /\ endedIn' = "download_objects"
    /\ UNCHANGED <<diskVars, run, listVars, loopVars, histVars>>

\* while download_fileobj is writing the file (line 122)
InterruptTransfer ==
    /\ ToDownload
    /\ dirs' = dirs \cup Makedirs(Dirname(Key))
    /\ fs' = [fs EXCEPT ![Key] = "partial"]
    /\ calls' = calls \cup {Key}
    /\ raised' = "KeyboardInterrupt"
    /\ pc' = init_script_except(raised')
    /\ endedIn' = "download_objects"
    /\ Reached("missing")
    /\ UNCHANGED <<logFile, run, listVars, loopVars, loaded, loadOk, class, transferred, fresh, startedEmpty,
                   prevOutcome, prevStats, prevClass>>

\* after the transfer, before line 125
InterruptBeforeLog ==
    /\ ToDownload
    /\ dirs' = dirs \cup Makedirs(Dirname(Key))
    /\ fs' = [fs EXCEPT ![Key] = "complete"]
    /\ calls' = calls \cup {Key}
    /\ transferred' = transferred \cup {Key}
    /\ raised' = "KeyboardInterrupt"
    /\ pc' = init_script_except(raised')
    /\ endedIn' = "download_objects"
    /\ Reached("missing")
    /\ UNCHANGED <<logFile, run, listVars, loopVars, loaded, loadOk, class, fresh, startedEmpty,
                   prevOutcome, prevStats, prevClass>>

\* while line 125 writes the ledger, or right after it
InterruptLog ==
    /\ ToDownload
    /\ dirs' = dirs \cup Makedirs(Dirname(Key))
    /\ fs' = [fs EXCEPT ![Key] = "complete"]
    /\ downloaded_files' = downloaded_files \cup {Key}
    /\ logFile' \in TruncatedSaves(downloaded_files')
                        \cup {save_download_log(downloaded_files')}
    /\ calls' = calls \cup {Key}
    /\ transferred' = transferred \cup {Key}
    /\ raised' = "KeyboardInterrupt"
    /\ pc' = init_script_except(raised')
    /\ endedIn' = "download_objects"
    /\ Reached("missing")
    /\ UNCHANGED <<run, listVars, files, directories, stats, index, loaded, loadOk, class, fresh, startedEmpty,
                   prevOutcome, prevStats, prevClass>>

\* download_fileobj raised and the interrupt arrives in the handler, after
\* line 134 and before os.remove (line 137)
InterruptHandler ==
    /\ ToDownload
    /\ dirs' = dirs \cup Makedirs(Dirname(Key))
    /\ fs' = [fs EXCEPT ![Key] = "partial"]
    /\ stats' = Bump("failed")
    /\ calls' = calls \cup {Key}
    /\ raised' = "KeyboardInterrupt"
    /\ pc' = init_script_except(raised')
    /\ endedIn' = "download_objects"
    /\ Reached("missing")
    /\ Classified("failed")
    /\ UNCHANGED <<logFile, run, listVars, files, directories, downloaded_files, index,
                   loaded, loadOk, transferred, fresh, startedEmpty, prevOutcome, prevStats, prevClass>>

\* the loop is over: return stats, and init_script prints the summary
Finish ==
    /\ pc = "loop"
    /\ index > Len(files)
    /\ pc' = "done"
    /\ UNCHANGED <<diskVars, run, listVars, loopVars, histVars, endedIn, raised>>

Next ==
    \/ StartRun
    \/ ListPage
    \/ ListError
    \/ ListInterrupt
    \/ Prepare
    \/ CreateDirectoriesError
    \/ CreateDirectoriesInterrupt
    \/ SkipLogged
    \/ SkipExists
    \/ SkipExistsSaveError
    \/ SkipExistsInterrupt
    \/ MakedirsError
    \/ DownloadOk
    \/ DownloadError
    \/ DownloadSaveError
    \/ InterruptBoundary
    \/ InterruptTransfer
    \/ InterruptBeforeLog
    \/ InterruptLog
    \/ InterruptHandler
    \/ Finish

Spec == Init /\ [][Next]_vars

(***************************************************************************)
(* Type invariant.                                                         *)
(***************************************************************************)
TypeOK ==
    /\ pc \in {"idle", "list", "listed", "loop", "done", "interrupted", "error"}
    /\ run \in 0..MaxRuns
    /\ \A k \in AllKeys : fs[k] \in {"absent", "partial", "complete"}
    /\ downloaded_files \subseteq AllKeys
    /\ index \in 1..(Len(files) + 1)

(***************************************************************************)
(* Properties.                                                             *)
(***************************************************************************)
\* the keys a reload of the ledger file yields
OnDisk == get_download_log(logFile)

\* C1: a key is never in the ledger (the set in memory during the loop, or
\* the file) while the local file at rootPath/Key holds only part of the
\* object's bytes.
C1_PartialNeverLogged ==
    \A k \in AllKeys :
        fs[k] = "partial" =>
            /\ k \notin OnDisk
            /\ pc \in {"loop", "done"} => k \notin downloaded_files

\* C2: for a record classified failed, after its iteration and up to the end
\* of the run, there is no file at rootPath/Key and the key is neither in
\* the in-memory set nor in the on-disk ledger.
C2_FailedLeavesNoTrace ==
    pc \in {"loop", "done"} =>
        \A k \in AllKeys :
            class[k] = "failed" =>
                /\ fs[k] = "absent"
                /\ k \notin downloaded_files
                /\ k \notin OnDisk

\* C3 as stated: the second of two runs that both returned normally has
\* downloaded = 0 and skipped_logged = the number of file records.
C3_SecondRunAllLogged ==
    (pc = "done" /\ prevOutcome = "done") =>
        /\ stats.downloaded = 0
        /\ stats.skipped_logged = Len(files)

\* C3 amended: the same, when the first run counted no failed record.
C3_SecondRunAllLoggedAfterCleanRun ==
    (pc = "done" /\ prevOutcome = "done" /\ prevStats.failed = 0) =>
        /\ stats.downloaded = 0
        /\ stats.skipped_logged = Len(files)

C3_Witness ==
    /\ pc = "done"
    /\ prevOutcome = "done"
    /\ prevStats.failed = 0
    /\ prevStats.downloaded > 0
    /\ prevStats.skipped_exists > 0
    /\ stats.skipped_logged = 2

\* C4: in a run started on an empty root without a ledger, at every
\* iteration boundary a reload of the ledger file yields exactly the keys
\* reported downloaded so far.
C4_LedgerDurability ==
    (fresh /\ pc = "loop") => OnDisk = {k \in AllKeys : class[k] = "downloaded"}

\* C5: a record found on disk but not in the ledger gets no download call,
\* is counted skipped_exists, is in the on-disk ledger after the run, and
\* is counted skipped_logged by the next run.
C5_ExistsUnloggedRepair ==
    /\ \A k \in AllKeys : seen[k] = "exists" => k \notin calls
    /\ pc = "done" =>
        \A k \in AllKeys :
            seen[k] = "exists" => class[k] = "skipped_exists" /\ k \in OnDisk
    /\ (pc = "done" /\ prevOutcome = "done") =>
        \A k \in AllKeys :
            prevClass[k] = "skipped_exists" => class[k] = "skipped_logged"

\* C6: no failure while handling a record ends download_objects: the loop is
\* only ever left by its end or by a user interrupt.
C6_FailureNeverAborts ==
    ~(pc = "error" /\ endedIn = "download_objects")

\* C7: when list_objects_in_bucket returns, all_objects is the concatenation
\* of the pages of the chain in page order, which is the bucket's listing.
C7_PaginationComplete ==
    pc = "listed" => all_objects = Flatten(pages) /\ all_objects = Bucket

C7_Witness ==
    /\ pc = "listed"
    /\ Len(pages) = 3
    /\ \A i \in 1..3 : pages[i] # <<>>
    /\ continuation_token = 3

\* C8: a record whose key ends in "/" gets no download call, is added to no
\* counter and is never put in the ledger, and the number of files is the
\* number of listed records whose key does not end in "/".
C8_MarkersExcluded ==
    /\ \A k \in MarkerKeys :
        /\ k \notin calls
        /\ class[k] = "none"
        /\ k \notin downloaded_files
        /\ k \notin OnDisk
    /\ pc \in {"loop", "done"} =>
        Len(files) = Cardinality({i \in 1..Len(all_objects) :
                                    all_objects[i][Len(all_objects[i])] # "/"})

C8_Witness ==
    /\ pc = "done"
    /\ directories = <<KeyDir>>
    /\ Len(files) = 2
    /\ stats.downloaded = 2
    /\ <<"d">> \in dirs

\* C9: a user interrupt inside the download loop leaves a readable ledger
\* file that holds the keys recorded before the interrupted record (and at
\* most that record's key besides).
C9_InterruptKeepsLedger ==
    [][(pc = "loop" /\ pc' = "interrupted") =>
           /\ Readable(logFile) => Readable(logFile')
           /\ OnDisk \subseteq get_download_log(logFile')
           /\ get_download_log(logFile') \subseteq OnDisk \cup {Key}]_vars

\* C10: once a transfer of a key has succeeded, no download call is issued
\* for that key again.
C10_ExactlyOnce ==
    [][\A k \in transferred : ~(k \in calls' /\ k \notin calls)]_vars

\* C11: once a list request has failed, the run has ended as an error with
\* no download call and no partition of the partial listing, and no step of
\* the listing phase changes a local file, a directory or the ledger file.
C11_ListFailureFatal ==
    /\ [](raised = "Exception" /\ endedIn = "list_objects_in_bucket" =>
            /\ pc = "error"
            /\ calls = {}
            /\ files = <<>>
            /\ directories = <<>>)
    /\ [][pc = "list" => UNCHANGED diskVars]_vars

C11_Witness ==
    /\ pc = "error"
    /\ endedIn = "list_objects_in_bucket"
    /\ Len(requests) = 2
    /\ all_objects = <<KeyA, KeyDir>>
    /\ dirs = {}

\* C12: get_download_log returns the empty set for an absent file, exactly
\* the saved keys for a file save_download_log wrote completely, and the
\* empty set for a file whose write stopped early.
C12_LoadNeverFails ==
    /\ ~logFile.exists => OnDisk = {}
    /\ \A saved \in SUBSET AllKeys :
        /\ logFile = save_download_log(saved) => OnDisk = saved
        /\ logFile \in TruncatedSaves(saved) => OnDisk = {}

C12_Witness ==
    /\ pc = "loop"
    /\ logFile \in TruncatedSaves({KeyA, KeyB})
    /\ Len(logFile.text) = 3
    /\ ~loadOk
    /\ loaded = {}
    /\ index = 1

\* C13: a run ends in exactly one of three ways: normally ("done", the
\* summary is printed) when nothing was raised, with the resume hint
\* ("interrupted") exactly when a KeyboardInterrupt was raised, whatever
\* function it came from, and with the error message ("error") exactly when
\* another exception was raised.
C13_ThreeOutcomes ==
    /\ raised = "none" => pc \notin {"interrupted", "error"}
    /\ raised = "KeyboardInterrupt" => pc = "interrupted"
    /\ raised = "Exception" => pc = "error"
    /\ pc = "done" => raised = "none"

C13_Witness ==
    /\ pc = "interrupted"
    /\ raised = "KeyboardInterrupt"
    /\ endedIn = "create_directories"
    /\ prevOutcome = "error"

\* C14: at every iteration boundary and at the end of a run, every key this
\* run has put in the ledger (the set in memory or the file) has a file at
\* rootPath/Key.
C14_LoggedKeysHaveFiles ==
    pc \in {"loop", "done"} =>
        \A k \in (downloaded_files \cup OnDisk) \ loaded : fs[k] # "absent"

\* C15: within a run whose initial load succeeded, no turn of the loop
\* removes a key from the in-memory set or from the keys a reload of the
\* ledger file yields.
C15_AppendOnly ==
    [][(pc = "loop" /\ pc' = "loop" /\ loadOk) =>
           /\ downloaded_files \subseteq downloaded_files'
           /\ OnDisk \subseteq get_download_log(logFile')]_vars

\* C16: a turn of the loop on a record whose key is in the ledger changes no
\* local file, no directory, neither the in-memory set nor the ledger file,
\* makes no download call, and counts the record as skipped_logged only.
C16_LoggedRecordOnlyCounted ==
    [][(InLoop /\ Key \in downloaded_files) =>
           /\ UNCHANGED <<fs, dirs, logFile, downloaded_files, calls, transferred>>
           /\ pc' = "loop" =>
                /\ stats' = [stats EXCEPT !.skipped_logged = @ + 1]
                /\ index' = index + 1]_vars

C16_Witness ==
    /\ pc = "done"
    /\ class[KeyA] = "skipped_logged"
    /\ fs[KeyA] = "absent"
    /\ class[KeyB] = "skipped_logged"
    /\ fs[KeyB] = "complete"

\* the response the service gave to the i-th request of this listing
ResponseTo(i) == list_objects_v2(pages, requests[i])

\* C17: the first list request carries no token, every later one carries the
\* token of the response before it, which was truncated, no token is sent
\* twice, and the listing ends exactly at the first response that is not
\* truncated.
C17_TokensFollowed ==
    pc \in {"list", "listed"} =>
        /\ requests # <<>> => requests[1] = None
        /\ \A i \in 2..Len(requests) :
            /\ ResponseTo(i - 1).IsTruncated
            /\ requests[i] = ResponseTo(i - 1).NextContinuationToken
        /\ \A i, j \in 1..Len(requests) : requests[i] = requests[j] => i = j
        /\ (pc = "list" /\ requests # <<>>) => ResponseTo(Len(requests)).IsTruncated
        /\ pc = "listed" => ~ResponseTo(Len(requests)).IsTruncated

C17_Witness ==
    /\ pc = "listed"
    /\ requests = <<None, 2, 3>>
    /\ pages[2] = <<>>

StatsTotal == stats.downloaded + stats.skipped_exists + stats.skipped_logged + stats.failed

\* C18: at every iteration boundary the four counters add up to the number
\* of records handled so far, each handled record is in exactly one counter,
\* and on normal return the sum is the number of file records.
C18_CountersPartition ==
    pc \in {"loop", "done"} =>
        /\ StatsTotal = index - 1
        /\ pc = "done" => StatsTotal = Len(files)
        /\ \A c \in {"downloaded", "skipped_exists", "skipped_logged", "failed"} :
            stats[c] = Cardinality({i \in 1..(index - 1) : class[files[i]] = c})
        /\ \A i \in index..Len(files) : class[files[i]] = "none"

C18_Witness ==
    /\ pc = "done"
    /\ stats.failed = 1
    /\ stats.skipped_logged = 1
    /\ Len(files) = 2

\* C19: at every iteration boundary after the first event a run has recorded
\* (a download or a skip of an existing file), the ledger file and the
\* in-memory set hold the same keys.
C19_DiskEqualsMemory ==
    (pc \in {"loop", "done"}
        /\ \E k \in AllKeys : class[k] \in {"downloaded", "skipped_exists"}) =>
        OnDisk = downloaded_files

\* C20: reruns that started on an empty root converge: a run that returns
\* normally without a failed record leaves every file key in the ledger
\* with its complete object at rootPath/Key.  (Every key is then logged, so
\* no later run touches a file: what is not complete then never will be.)
C20_CleanRunHasConverged ==
    (startedEmpty /\ pc = "done" /\ stats.failed = 0) =>
        \A k \in FileKeys : k \in OnDisk /\ fs[k] = "complete"

=============================================================================
